---- MODULE Spec2Model ----
(***************************************************************************)
(* A model of drawing_lib: the layer hierarchy (Layer, LayerGroup,         *)
(* LayerManager in layers.py), the Shape geometry validation (shapes.py)   *)
(* and the FillProperties consistency rule (styles.py).                    *)
(*                                                                         *)
(* Python objects live in a heap indexed by their id: generate_id() gives  *)
(* every Layer and LayerGroup a fresh uuid, so an object and its id        *)
(* determine each other.  A children list holds references, i.e. ids.      *)
(***************************************************************************)
EXTENDS Integers, Sequences, FiniteSets, TLC

\* ------------------------------------------------------------------ bounds
\* Layers and groups that may be created besides the root group.
MaxNodes == 3
\* z_index values 0..MaxZ are assigned to nodes.
MaxZ == 1

\* ------------------------------------------------------- program constants
\* Python's None, as the value of an Optional[ID] field.
None == 0
\* The id of LayerManager.root_group, the first object created.
root_id == 1

NodeIds == 1..(MaxNodes + 1)
\* Ids a caller may pass: every id the heap can hold and one no object ever gets.
ArgIds == 1..(MaxNodes + 2)
ZValues == 0..MaxZ

VARIABLES
    kind,             \* kind[n]: "group", "layer", or "free" while n is not created
    children,         \* LayerGroup.children, a sequence of ids
    parent_id,        \* Layer.parent_id / LayerGroup.parent_id
    z_index,          \* Layer.z_index / LayerGroup.z_index
    active_layer_id,  \* LayerManager.active_layer_id
    next_id,          \* the id generate_id() returns next
    shape,            \* a Shape object: its type and geometry
    fill,             \* a FillProperties object: its type and payload fields
    shapes,           \* Layer.shapes of one layer driven on its own
    layer_shapes,     \* Layer.shapes of every layer of the hierarchy, by layer id
    gradient,         \* a LinearGradient or RadialGradient object: its stops
    color,            \* a HexColor object and what was converted from it
    op                \* the last call: its name, receiver, argument and result

vars == <<kind, children, parent_id, z_index, active_layer_id, next_id, shape, fill,
          shapes, layer_shapes, gradient, color, op>>
tree == <<kind, children, parent_id, z_index>>
layer_vars == <<kind, children, parent_id, z_index, active_layer_id, next_id>>
value_vars == <<shape, fill, shapes, layer_shapes, gradient, color>>
rest_vars == <<shapes, layer_shapes, gradient, color>>

\* A call on object `on` (None for the manager) with argument arg: ok is the
\* boolean result, or whether it returned without raising; val is any other result.
Call(name, on, arg, ok, val) ==
    [name |-> name, on |-> on, arg |-> arg, ok |-> ok, val |-> val]

\* ------------------------------------------------------------ LayerGroup

\* A pop that drops the entries behind the i-th as well.
pop_and_behind(seq, i) == SubSeq(seq, 1, i - 1)

\* list.pop(i)
pop(seq, i) == SubSeq(seq, 1, i - 1) \o SubSeq(seq, i + 1, Len(seq))

\* The index of the first element equal to child (ids and objects coincide), 0 if none.
index_of(seq, child) ==
    IF \E i \in 1..Len(seq) : seq[i] = child
    THEN CHOOSE i \in 1..Len(seq) :
           /\ seq[i] = child
           /\ \A j \in 1..(i - 1) : seq[j] # child
    ELSE 0

\* An add_child that appends the child and leaves its parent_id alone.
add_child_unparented(ch, pid, g, child) ==
    [children  |-> [ch EXCEPT ![g] = Append(@, child)],
     parent_id |-> pid]

\* add_child: child.parent_id = self.id; self.children.append(child)
add_child(ch, pid, g, child) ==
    [children  |-> [ch EXCEPT ![g] = Append(@, child)],
     parent_id |-> [pid EXCEPT ![child] = g]]

\* remove_child: the first direct child with that id is popped and its parent_id cleared.
remove_child(ch, pid, g, child) ==
    LET i == index_of(ch[g], child) IN
    IF i = 0
    THEN [ok |-> FALSE, children |-> ch, parent_id |-> pid]
    ELSE [ok        |-> TRUE,
          children  |-> [ch EXCEPT ![g] = pop(@, i)],
          parent_id |-> [pid EXCEPT ![ch[g][i]] = None]]

RECURSIVE get_all_layers_from(_, _, _, _)
get_all_layers_from(kd, ch, g, i) ==
    IF i > Len(ch[g]) THEN <<>>
    ELSE LET child == ch[g][i] IN
         IF kd[child] = "layer"
         THEN <<child>> \o get_all_layers_from(kd, ch, g, i + 1)
         ELSE IF kd[child] = "group"
         THEN get_all_layers_from(kd, ch, child, 1) \o get_all_layers_from(kd, ch, g, i + 1)
         ELSE get_all_layers_from(kd, ch, g, i + 1)

\* LayerGroup.get_all_layers(recursive=True)
get_all_layers(kd, ch, g) == get_all_layers_from(kd, ch, g, 1)

RECURSIVE find_layer_from(_, _, _, _, _)
\* A find_layer_by_id whose match forgets the isinstance(child, Layer) test.
find_layer_from_any_kind(kd, ch, g, layer_id, i) ==
    IF i > Len(ch[g]) THEN None
    ELSE LET child == ch[g][i] IN
         IF child = layer_id THEN child
         ELSE IF kd[child] = "group"
         THEN LET found == find_layer_from(kd, ch, child, layer_id, 1) IN
              IF found # None THEN found
              ELSE find_layer_from(kd, ch, g, layer_id, i + 1)
         ELSE find_layer_from(kd, ch, g, layer_id, i + 1)

\* The loop of find_layer_by_id, from the i-th child of g on.
find_layer_from(kd, ch, g, layer_id, i) ==
    IF i > Len(ch[g]) THEN None
    ELSE LET child == ch[g][i] IN
         IF kd[child] = "layer" /\ child = layer_id THEN child
         ELSE IF kd[child] = "group"
         THEN LET found == find_layer_from(kd, ch, child, layer_id, 1) IN
              IF found # None THEN found
              ELSE find_layer_from(kd, ch, g, layer_id, i + 1)
         ELSE find_layer_from(kd, ch, g, layer_id, i + 1)

\* LayerGroup.find_layer_by_id(layer_id, recursive=True)
find_layer_by_id(kd, ch, g, layer_id) == find_layer_from(kd, ch, g, layer_id, 1)

RECURSIVE find_group_by_id(_, _, _, _)
RECURSIVE find_group_from(_, _, _, _, _)
\* The loop of find_group_by_id, from the i-th child of g on.
find_group_from(kd, ch, g, group_id, i) ==
    IF i > Len(ch[g]) THEN None
    ELSE LET child == ch[g][i] IN
         IF kd[child] = "group"
         THEN IF child = group_id THEN child
              ELSE LET found == find_group_by_id(kd, ch, child, group_id) IN
                   IF found # None THEN found
                   ELSE find_group_from(kd, ch, g, group_id, i + 1)
         ELSE find_group_from(kd, ch, g, group_id, i + 1)

\* LayerGroup.find_group_by_id(group_id, recursive=True): a group finds itself.
find_group_by_id(kd, ch, g, group_id) ==
    IF g = group_id THEN g ELSE find_group_from(kd, ch, g, group_id, 1)

\* ----------------------------------------------------------- LayerManager

RECURSIVE search_group(_, _, _, _, _)
\* A parent search that looks at the direct children of the group only.
search_group_flat(kd, ch, g, child_id, i) ==
    IF i > Len(ch[g]) THEN None
    ELSE IF ch[g][i] = child_id THEN g
    ELSE search_group(kd, ch, g, child_id, i + 1)

\* search_group inside _find_parent_group, from the i-th child of g on.
search_group(kd, ch, g, child_id, i) ==
    IF i > Len(ch[g]) THEN None
    ELSE LET child == ch[g][i] IN
         IF child = child_id THEN g
         ELSE IF kd[child] = "group"
         THEN LET found == search_group(kd, ch, child, child_id, 1) IN
              IF found # None THEN found
              ELSE search_group(kd, ch, g, child_id, i + 1)
         ELSE search_group(kd, ch, g, child_id, i + 1)

\* LayerManager._find_parent_group
find_parent_group(kd, ch, child_id) == search_group(kd, ch, root_id, child_id, 1)

\* generate_id(): a uuid4, distinct from every id handed out before.
generate_id == next_id

\* The groups a caller can hold a reference to: created, reachable or not.
GroupObjects == {n \in NodeIds : kind[n] = "group"}
Objects == {n \in NodeIds : kind[n] # "free"}

\* A create_layer that makes every new layer the active one.
active_after_create_latest(active, layer) == layer

\* create_layer, lines 305-306: the new layer becomes active if none is.
active_after_create(active, layer) == IF active = None THEN layer ELSE active

\* LayerManager.create_layer(name, parent_group); parent None is the default.
create_layer(parent) ==
    /\ next_id \in NodeIds
    /\ LET layer == generate_id
           target_group == IF parent # None THEN parent ELSE root_id
           added == add_child(children, parent_id, target_group, layer)
       IN /\ kind' = [kind EXCEPT ![layer] = "layer"]
          /\ children' = added.children
          /\ parent_id' = added.parent_id
          /\ active_layer_id' = active_after_create(active_layer_id, layer)
          /\ next_id' = next_id + 1
          /\ op' = Call("create_layer", None, parent, TRUE, layer)
    /\ UNCHANGED <<z_index, value_vars>>

\* LayerManager.create_group(name, parent_group)
create_group(parent) ==
    /\ next_id \in NodeIds
    /\ LET group == generate_id
           target_group == IF parent # None THEN parent ELSE root_id
           added == add_child(children, parent_id, target_group, group)
       IN /\ kind' = [kind EXCEPT ![group] = "group"]
          /\ children' = added.children
          /\ parent_id' = added.parent_id
          /\ next_id' = next_id + 1
          /\ op' = Call("create_group", None, parent, TRUE, group)
    /\ UNCHANGED <<z_index, active_layer_id, value_vars>>

\* delete_layer that leaves active_layer_id alone.
active_after_delete_kept(active, layer_id) == active

\* delete_layer, lines 346-347
active_after_delete(active, layer_id) == IF active = layer_id THEN None ELSE active

\* LayerManager.delete_layer(layer_id)
delete_layer(layer_id) ==
    LET layer == find_layer_by_id(kind, children, root_id, layer_id)
        parent == find_parent_group(kind, children, layer_id)
        removed == remove_child(children, parent_id, parent, layer_id)
    IN IF layer = None \/ parent = None
       THEN /\ op' = Call("delete_layer", None, layer_id, FALSE, None)
            /\ UNCHANGED <<tree, active_layer_id, next_id, value_vars>>
       ELSE /\ children' = removed.children
            /\ parent_id' = removed.parent_id
            /\ active_layer_id' = active_after_delete(active_layer_id, layer_id)
            /\ op' = Call("delete_layer", None, layer_id, removed.ok, None)
            /\ UNCHANGED <<kind, z_index, next_id, value_vars>>

\* A root test that answers True for the root.
delete_group_refused_true(group_id) == [refused |-> group_id = root_id, ok |-> TRUE]

\* delete_group, lines 363-364: the root group is refused with False.
delete_group_refused(group_id) == [refused |-> group_id = root_id, ok |-> FALSE]

\* LayerManager.delete_group(group_id)
delete_group(group_id) ==
    LET guard == delete_group_refused(group_id)
        group == find_group_by_id(kind, children, root_id, group_id)
        parent == find_parent_group(kind, children, group_id)
        removed == remove_child(children, parent_id, parent, group_id)
    IN IF guard.refused
       THEN /\ op' = Call("delete_group", None, group_id, guard.ok, None)
            /\ UNCHANGED <<tree, active_layer_id, next_id, value_vars>>
       ELSE IF group = None \/ parent = None
       THEN /\ op' = Call("delete_group", None, group_id, FALSE, None)
            /\ UNCHANGED <<tree, active_layer_id, next_id, value_vars>>
       ELSE /\ children' = removed.children
            /\ parent_id' = removed.parent_id
            /\ op' = Call("delete_group", None, group_id, removed.ok, None)
            /\ UNCHANGED <<kind, z_index, active_layer_id, next_id, value_vars>>

\* LayerManager.set_active_layer(layer_id)
set_active_layer(layer_id) ==
    IF find_layer_by_id(kind, children, root_id, layer_id) # None
    THEN /\ active_layer_id' = layer_id
         /\ op' = Call("set_active_layer", None, layer_id, TRUE, None)
         /\ UNCHANGED <<tree, next_id, value_vars>>
    ELSE /\ op' = Call("set_active_layer", None, layer_id, FALSE, None)
         /\ UNCHANGED <<tree, active_layer_id, next_id, value_vars>>

\* An insertion that puts x in front of the elements of its own key.
RECURSIVE insert_sorted_before_equal(_, _, _)
insert_sorted_before_equal(z, sorted, x) ==
    IF sorted = <<>> THEN <<x>>
    ELSE IF z[Head(sorted)] < z[x]
    THEN <<Head(sorted)>> \o insert_sorted_before_equal(z, Tail(sorted), x)
    ELSE <<x>> \o sorted

\* list.sort(key=z_index), stable: insertion of x behind the elements not above it.
RECURSIVE insert_sorted(_, _, _)
insert_sorted(z, sorted, x) ==
    IF sorted = <<>> THEN <<x>>
    ELSE IF z[Head(sorted)] <= z[x]
    THEN <<Head(sorted)>> \o insert_sorted(z, Tail(sorted), x)
    ELSE <<x>> \o sorted

\* A sort that keeps one entry for each z_index, as a sort through a dict keyed
\* by z_index would.
RECURSIVE sort_by_z_keyed(_, _)
sort_by_z_keyed(z, seq) ==
    IF seq = <<>> THEN <<>>
    ELSE LET rest == sort_by_z_keyed(z, SubSeq(seq, 1, Len(seq) - 1))
             x == seq[Len(seq)]
         IN IF \E i \in 1..Len(rest) : z[rest[i]] = z[x]
            THEN rest
            ELSE insert_sorted(z, rest, x)

RECURSIVE sort_by_z(_, _)
sort_by_z(z, seq) ==
    IF seq = <<>> THEN <<>>
    ELSE insert_sorted(z, sort_by_z(z, SubSeq(seq, 1, Len(seq) - 1)), seq[Len(seq)])

\* The groups sort_group reaches from g, g included.
RECURSIVE groups_under(_, _, _)
groups_under(kd, ch, g) ==
    {g} \cup UNION {groups_under(kd, ch, ch[g][i]) :
                       i \in {j \in 1..Len(ch[g]) : kd[ch[g][j]] = "group"}}

\* LayerManager.reorder_layers_by_z_index()
reorder_layers_by_z_index ==
    /\ children' = [g \in NodeIds |->
                      IF g \in groups_under(kind, children, root_id)
                      THEN sort_by_z(z_index, children[g])
                      ELSE children[g]]
    /\ op' = Call("reorder_layers_by_z_index", None, None, TRUE, None)
    /\ UNCHANGED <<kind, parent_id, z_index, active_layer_id, next_id, value_vars>>

\* layer.z_index = z, a plain attribute assignment on a layer or group the caller
\* holds (the root's z_index is read by nothing and is left alone).
set_z_index(n, z) ==
    /\ kind[n] # "free"
    /\ n # root_id
    /\ z_index' = [z_index EXCEPT ![n] = z]
    /\ op' = Call("set_z_index", n, z, TRUE, None)
    /\ UNCHANGED <<kind, children, parent_id, active_layer_id, next_id, value_vars>>

\* A z-order view that is the traversal order.
get_layers_unsorted(kd, ch, z) == get_all_layers(kd, ch, root_id)

\* LayerManager.get_layers_by_z_order(): sorted(self.get_all_layers(), key=z_index)
get_layers_by_z_order(kd, ch, z) == sort_by_z(z, get_all_layers(kd, ch, root_id))

\* manager.get_layers_by_z_order(), a query: the list returned is op.val
call_get_layers_by_z_order ==
    /\ op' = Call("get_layers_by_z_order", None, None, TRUE,
                  get_layers_by_z_order(kind, children, z_index))
    /\ UNCHANGED <<layer_vars, value_vars>>

\* Layers and groups created when z-order is exercised.
MaxOrderNodes == 3

\* create_layer / create_group while fewer than MaxOrderNodes nodes exist
order_create_layer(parent) == next_id <= MaxOrderNodes + 1 /\ create_layer(parent)
order_create_group(parent) == next_id <= MaxOrderNodes + 1 /\ create_group(parent)

\* Layers and groups created when deletions meet z-order.
MaxTreeNodes == 2

\* create_layer / create_group while fewer than MaxTreeNodes nodes exist
tree_create_layer(parent) == next_id <= MaxTreeNodes + 1 /\ create_layer(parent)
tree_create_group(parent) == next_id <= MaxTreeNodes + 1 /\ create_group(parent)

\* How pydantic settles children: List[Union['LayerGroup', Layer]] for a dumped
\* child.  The union has no discriminator, and a dumped Layer validates as either
\* member (both need `name` only and ignore keys they do not know).  Smart mode
\* takes the first member that validates, LayerGroup, or, in releases that break
\* the tie by fields set, the member that uses more of the keys, which is the
\* class that was dumped.
UnionModes == {"first_member", "most_fields"}

\* The class a dumped node is decoded as.
decoded_kind(union_mode, k) ==
    IF k = "layer" /\ union_mode = "first_member" THEN "group" ELSE k

\* manager = LayerManager.model_validate(manager.model_dump()): ids, z_index,
\* parent_id, child order and active_layer_id are plain fields and come back as
\* dumped; a node that comes back as a LayerGroup has the children dumped for it,
\* none for a Layer.
round_trip(union_mode) ==
    /\ kind' = [n \in NodeIds |->
                  IF n # root_id THEN decoded_kind(union_mode, kind[n]) ELSE kind[n]]
    /\ op' = Call("round_trip", None, union_mode, TRUE, None)
    /\ UNCHANGED <<children, parent_id, z_index, active_layer_id, next_id, value_vars>>

\* ------------------------------------------- LayerGroup, called directly

\* Objects constructed besides the root when groups are driven directly.
MaxObjects == 2
\* Entries all children lists hold together, at most.
MaxEntries == 2

\* Ids passed to remove_child and move_child: every object's and one of no object.
GroupArgIds == 1..(MaxObjects + 2)

RECURSIVE total_entries(_, _)
total_entries(ch, n) == IF n = 0 THEN 0 ELSE Len(ch[n]) + total_entries(ch, n - 1)

\* An insert that always puts x behind the last element.
insert_last(seq, i, x) == Append(seq, x)

\* list.insert(i, x), 0 <= i <= len
insert(seq, i, x) == SubSeq(seq, 1, i) \o <<x>> \o SubSeq(seq, i + 1, Len(seq))

min(a, b) == IF a <= b THEN a ELSE b
max(a, b) == IF a >= b THEN a ELSE b

\* move_child: pop the first match, re-insert at max(0, min(new_index, len)).
move_child(ch, g, child, new_index) ==
    LET i == index_of(ch[g], child) IN
    IF i = 0
    THEN [ok |-> FALSE, children |-> ch]
    ELSE LET rest == pop(ch[g], i) IN
         [ok       |-> TRUE,
          children |-> [ch EXCEPT ![g] = insert(rest, max(0, min(new_index, Len(rest))), ch[g][i])]]

\* Layer(name=...): a fresh layer that no group holds.
new_layer ==
    /\ next_id <= MaxObjects + 1
    /\ kind' = [kind EXCEPT ![generate_id] = "layer"]
    /\ next_id' = next_id + 1
    /\ op' = Call("Layer", None, None, TRUE, generate_id)
    /\ UNCHANGED <<children, parent_id, z_index, active_layer_id, value_vars>>

\* LayerGroup(name=...): a fresh group that no group holds.
new_group ==
    /\ next_id <= MaxObjects + 1
    /\ kind' = [kind EXCEPT ![generate_id] = "group"]
    /\ next_id' = next_id + 1
    /\ op' = Call("LayerGroup", None, None, TRUE, generate_id)
    /\ UNCHANGED <<children, parent_id, z_index, active_layer_id, value_vars>>

\* g.add_child(child), child any layer or group object
call_add_child(g, child) ==
    /\ total_entries(children, MaxNodes + 1) < MaxEntries
    /\ LET added == add_child(children, parent_id, g, child) IN
       /\ children' = added.children
       /\ parent_id' = added.parent_id
    /\ op' = Call("add_child", g, child, TRUE, None)
    /\ UNCHANGED <<kind, z_index, active_layer_id, next_id, value_vars>>

\* g.remove_child(child), child an id or an object (both arms remove the first
\* direct child that matches and clear its parent_id)
call_remove_child(g, child) ==
    /\ LET removed == remove_child(children, parent_id, g, child) IN
       /\ children' = removed.children
       /\ parent_id' = removed.parent_id
       /\ op' = Call("remove_child", g, child, removed.ok, None)
    /\ UNCHANGED <<kind, z_index, active_layer_id, next_id, value_vars>>

\* g.move_child(child, new_index)
call_move_child(g, child, new_index) ==
    /\ LET moved == move_child(children, g, child, new_index) IN
       /\ children' = moved.children
       /\ op' = Call("move_child", g, child, moved.ok, new_index)
    /\ UNCHANGED <<kind, parent_id, z_index, active_layer_id, next_id, value_vars>>

\* ---------------------------------------------- LayerGroup, its queries

\* The groups a recursive method called on a group of S is called on in turn,
\* S included: every LayerGroup child is descended into.
RECURSIVE descended_groups(_, _, _)
descended_groups(kd, ch, S) ==
    LET T == S \cup {c \in NodeIds : kd[c] = "group" /\
                        \E h \in S : \E i \in 1..Len(ch[h]) : ch[h][i] = c}
    IN IF T = S THEN S ELSE descended_groups(kd, ch, T)

\* child.get_all_layers(recursive=True) calls itself on every LayerGroup child and
\* returns early nowhere: when a group that g descends into lies below itself the
\* calls never end and Python raises RecursionError.
recursion_never_ends(kd, ch, g) ==
    \E h \in descended_groups(kd, ch, {g}) :
        h \in descended_groups(kd, ch, {c \in NodeIds : kd[c] = "group" /\
                                           \E i \in 1..Len(ch[h]) : ch[h][i] = c})

\* LayerGroup.get_all_layers(recursive=False): nested groups are passed over
get_direct_layers(kd, ch, g) ==
    SelectSeq(ch[g], LAMBDA child : kd[child] = "layer")

\* What a call that ended in RecursionError gives back.
RecursionError == -1

\* g.get_all_layers(recursive), a query: the list returned is op.val
call_get_all_layers(g, recursive) ==
    /\ IF recursive
       THEN IF recursion_never_ends(kind, children, g)
            THEN op' = Call("get_all_layers", g, recursive, FALSE, RecursionError)
            ELSE op' = Call("get_all_layers", g, recursive, TRUE,
                            get_all_layers(kind, children, g))
       ELSE op' = Call("get_all_layers", g, recursive, TRUE,
                       get_direct_layers(kind, children, g))
    /\ UNCHANGED <<layer_vars, value_vars>>

\* Frames a search may stack.  A search is deterministic and reads the tree only:
\* once more frames are stacked than there are objects, some group is searched
\* from inside its own search, which repeats for ever, and Python raises
\* RecursionError at its recursion limit.
StackLimit == MaxNodes + 1

RECURSIVE find_layer_within(_, _, _, _, _, _)
\* LayerGroup.find_layer_by_id called on g at stack depth `depth`, from the i-th
\* child on; an exception raised below passes through every frame.
find_layer_within(kd, ch, g, layer_id, i, depth) ==
    IF depth > StackLimit THEN RecursionError
    ELSE IF i > Len(ch[g]) THEN None
    ELSE LET child == ch[g][i] IN
         IF kd[child] = "layer" /\ child = layer_id THEN child
         ELSE IF kd[child] = "group"
         THEN LET found == find_layer_within(kd, ch, child, layer_id, 1, depth + 1) IN
              IF found # None THEN found
              ELSE find_layer_within(kd, ch, g, layer_id, i + 1, depth)
         ELSE find_layer_within(kd, ch, g, layer_id, i + 1, depth)

RECURSIVE find_group_within(_, _, _, _, _, _)
\* LayerGroup.find_group_by_id called on g at stack depth `depth`; i = 0 is the
\* test of self.id, i >= 1 the loop from the i-th child on.
find_group_within(kd, ch, g, group_id, i, depth) ==
    IF depth > StackLimit THEN RecursionError
    ELSE IF i = 0
    THEN IF g = group_id THEN g ELSE find_group_within(kd, ch, g, group_id, 1, depth)
    ELSE IF i > Len(ch[g]) THEN None
    ELSE LET child == ch[g][i] IN
         IF kd[child] = "group"
         THEN IF child = group_id THEN child
              ELSE LET found == find_group_within(kd, ch, child, group_id, 0, depth + 1) IN
                   IF found # None THEN found
                   ELSE find_group_within(kd, ch, g, group_id, i + 1, depth)
         ELSE find_group_within(kd, ch, g, group_id, i + 1, depth)

\* g.find_layer_by_id(layer_id), a query: the layer returned (or None) is op.val
call_find_layer_by_id(g, layer_id) ==
    /\ LET found == find_layer_within(kind, children, g, layer_id, 1, 1) IN
       op' = Call("find_layer_by_id", g, layer_id, found # RecursionError, found)
    /\ UNCHANGED <<layer_vars, value_vars>>

\* g.find_group_by_id(group_id), a query
call_find_group_by_id(g, group_id) ==
    /\ LET found == find_group_within(kind, children, g, group_id, 0, 1) IN
       op' = Call("find_group_by_id", g, group_id, found # RecursionError, found)
    /\ UNCHANGED <<layer_vars, value_vars>>

\* ------------------------------------------------------------------ Layer

\* Shapes a caller holds; each is passed as the object or as its id.
MaxShapes == 2

\* An entry of Layer.shapes: a Shape object or an ID string.  `in`, remove() and
\* index() compare with ==, which never equates a Shape with a str, nor two
\* shapes of different ids.
ShapeObj(i) == [obj |-> i]
ShapeId(i) == [id |-> i]
ShapeArgs == {ShapeObj(i) : i \in 1..MaxShapes} \cup {ShapeId(i) : i \in 1..MaxShapes}

\* An add_shape without the membership test.
add_shape_always(seq, x) == Append(seq, x)

\* Layer.add_shape
add_shape(seq, x) == IF \A i \in 1..Len(seq) : seq[i] # x THEN Append(seq, x) ELSE seq

\* Layer.remove_shape: list.remove drops the first equal entry, ValueError if none.
remove_shape(seq, x) ==
    LET i == index_of(seq, x) IN
    IF i = 0 THEN [ok |-> FALSE, shapes |-> seq]
    ELSE [ok |-> TRUE, shapes |-> pop(seq, i)]

\* A move_shape that always re-inserts in front.
move_shape_to_front(seq, x, new_index) ==
    LET i == index_of(seq, x) IN
    IF i = 0 THEN [ok |-> FALSE, shapes |-> seq]
    ELSE [ok |-> TRUE, shapes |-> <<seq[i]>> \o pop(seq, i)]

\* Layer.move_shape
move_shape(seq, x, new_index) ==
    LET current_index == index_of(seq, x) IN
    IF current_index = 0 THEN [ok |-> FALSE, shapes |-> seq]
    ELSE LET rest == pop(seq, current_index) IN
         [ok     |-> TRUE,
          shapes |-> insert(rest, max(0, min(new_index, Len(rest))), seq[current_index])]

\* Layer.get_shape_ids: shape.id for a Shape entry, the entry itself for an ID
get_shape_ids(seq) ==
    [k \in 1..Len(seq) |-> IF "obj" \in DOMAIN seq[k] THEN seq[k].obj ELSE seq[k].id]

\* layer.add_shape(x)
call_add_shape(x) ==
    /\ shapes' = add_shape(shapes, x)
    /\ op' = Call("add_shape", None, x, TRUE, None)
    /\ UNCHANGED <<layer_vars, shape, fill, layer_shapes, gradient, color>>

\* layer.remove_shape(x)
call_remove_shape(x) ==
    /\ LET removed == remove_shape(shapes, x) IN
       /\ shapes' = removed.shapes
       /\ op' = Call("remove_shape", None, x, removed.ok, None)
    /\ UNCHANGED <<layer_vars, shape, fill, layer_shapes, gradient, color>>

\* layer.move_shape(x, new_index)
call_move_shape(x, new_index) ==
    /\ LET moved == move_shape(shapes, x, new_index) IN
       /\ shapes' = moved.shapes
       /\ op' = Call("move_shape", None, x, moved.ok, new_index)
    /\ UNCHANGED <<layer_vars, shape, fill, layer_shapes, gradient, color>>

\* layer.clear_shapes()
clear_shapes ==
    /\ shapes' = <<>>
    /\ op' = Call("clear_shapes", None, None, TRUE, None)
    /\ UNCHANGED <<layer_vars, shape, fill, layer_shapes, gradient, color>>

\* ------------------------------------------------------------------ Shape

\* Numbers in geometry payloads range over -1..MaxCoord.
MaxCoord == 1
\* Length of the points lists tried.
MaxPoints == 3

ShapeTypes ==
    {"rectangle", "circle", "ellipse", "line", "polyline", "polygon", "path", "group"}

\* Python values met in a geometry dict, each tagged with its type.
Num(n) == [num |-> n]
\* float('nan'): a float that every ordering comparison answers False for
NaN == [nan |-> TRUE]
\* a str, as its sequence of characters
Str(s) == [str |-> s]
\* a list (or tuple), as the sequence of its items
List(l) == [list |-> l]
PyNone == [none |-> TRUE]
\* Marks a key left out when a dict is written down; Dict drops it.
Absent == [absent |-> TRUE]

\* A geometry dict: a function from the keys it has to their values.
Dict(g) == [f \in {k \in DOMAIN g : g[k] # Absent} |-> g[f]]

\* 'name' in geometry
has(geometry, f) == f \in DOMAIN geometry
\* isinstance(v, (int, float))
is_number(v) == DOMAIN v = {"num"} \/ DOMAIN v = {"nan"}
\* v <= 0 and v < 0 for a number v
le_zero(v) == DOMAIN v = {"num"} /\ v.num <= 0
lt_zero(v) == DOMAIN v = {"num"} /\ v.num < 0
\* isinstance(v, str)
is_str(v) == DOMAIN v = {"str"}
\* isinstance(v, list), isinstance(v, (list, tuple))
is_list(v) == DOMAIN v = {"list"}

validate_rectangle_geometry(geometry) ==
    /\ has(geometry, "width") /\ has(geometry, "height")
    /\ ~ (~ is_number(geometry["width"]) \/ le_zero(geometry["width"]))
    /\ ~ (~ is_number(geometry["height"]) \/ le_zero(geometry["height"]))
    /\ has(geometry, "corner_radius") =>
          ~ (~ is_number(geometry["corner_radius"]) \/ lt_zero(geometry["corner_radius"]))

validate_circle_geometry(geometry) ==
    /\ has(geometry, "radius")
    /\ ~ (~ is_number(geometry["radius"]) \/ le_zero(geometry["radius"]))

validate_ellipse_geometry(geometry) ==
    /\ has(geometry, "rx") /\ has(geometry, "ry")
    /\ ~ (~ is_number(geometry["rx"]) \/ le_zero(geometry["rx"]))
    /\ ~ (~ is_number(geometry["ry"]) \/ le_zero(geometry["ry"]))

validate_line_geometry(geometry) ==
    /\ \A f \in {"x1", "y1", "x2", "y2"} : has(geometry, f)
    /\ \A f \in {"x1", "y1", "x2", "y2"} : is_number(geometry[f])

\* The loop body of the polyline and polygon validators, for one point.
valid_point(point) ==
    /\ is_list(point) /\ Len(point.list) = 2
    /\ \A k \in 1..Len(point.list) : is_number(point.list[k])

validate_polyline_geometry(geometry) ==
    /\ has(geometry, "points")
    /\ is_list(geometry["points"]) /\ Len(geometry["points"].list) >= 2
    /\ \A k \in 1..Len(geometry["points"].list) : valid_point(geometry["points"].list[k])

validate_polygon_geometry(geometry) ==
    /\ has(geometry, "points")
    /\ is_list(geometry["points"]) /\ Len(geometry["points"].list) >= 3
    /\ \A k \in 1..Len(geometry["points"].list) : valid_point(geometry["points"].list[k])

\* The characters str.strip() removes that the payloads tried contain.
Whitespace == {" ", "\t", "\n", "\r"}

RECURSIVE lstrip(_)
lstrip(s) == IF s # <<>> /\ Head(s) \in Whitespace THEN lstrip(Tail(s)) ELSE s

RECURSIVE rstrip(_)
rstrip(s) ==
    IF s # <<>> /\ s[Len(s)] \in Whitespace THEN rstrip(SubSeq(s, 1, Len(s) - 1)) ELSE s

\* str.strip()
strip(s) == rstrip(lstrip(s))

valid_commands ==
    {"M", "m", "L", "l", "H", "h", "V", "v", "C", "c", "S", "s",
     "Q", "q", "T", "t", "A", "a", "Z", "z"}

validate_path_geometry(geometry) ==
    /\ has(geometry, "path_data")
    /\ is_str(geometry["path_data"]) /\ strip(geometry["path_data"].str) # <<>>
    /\ strip(geometry["path_data"].str)[1] \in valid_commands

validate_group_geometry(geometry) ==
    /\ has(geometry, "children")
    /\ is_list(geometry["children"])
    /\ \A k \in 1..Len(geometry["children"].list) : is_str(geometry["children"].list[k])

\* Shape.validate_geometry: TRUE when no InvalidGeometryError is raised.
validate_geometry(shape_type, geometry) ==
    CASE shape_type = "rectangle" -> validate_rectangle_geometry(geometry)
      [] shape_type = "circle"    -> validate_circle_geometry(geometry)
      [] shape_type = "ellipse"   -> validate_ellipse_geometry(geometry)
      [] shape_type = "line"      -> validate_line_geometry(geometry)
      [] shape_type = "polyline"  -> validate_polyline_geometry(geometry)
      [] shape_type = "polygon"   -> validate_polygon_geometry(geometry)
      [] shape_type = "path"      -> validate_path_geometry(geometry)
      [] shape_type = "group"     -> validate_group_geometry(geometry)
      [] OTHER                    -> FALSE

\* The geometry payloads tried.
Scalars == {Num(n) : n \in (-1)..MaxCoord} \cup {NaN, Str(<<"1">>), Absent}

RectangleGeometries ==
    {Dict([width |-> w, height |-> h]) : w, h \in Scalars}
    \cup {Dict([width |-> Num(MaxCoord), height |-> Num(MaxCoord), corner_radius |-> r]) :
             r \in Scalars}

CircleGeometries == {Dict([radius |-> r]) : r \in Scalars}

EllipseGeometries == {Dict([rx |-> a, ry |-> b]) : a, b \in Scalars}

LineGeometries ==
    {Dict([x1 |-> a, y1 |-> Num(0), x2 |-> Num(MaxCoord), y2 |-> b]) : a, b \in Scalars}

GoodPoints == {List(<<Num(0), Num(0)>>), List(<<Num(MaxCoord), Num(-1)>>)}
BadPoints == {List(<<Num(0)>>), List(<<Num(0), Str(<<"1">>)>>), Num(0)}

PointsValues ==
    {List(s) : s \in UNION {[1..n -> GoodPoints] : n \in 0..MaxPoints}}
    \cup {List(<<g, b, g>>) : g \in GoodPoints, b \in BadPoints}
    \cup {Str(<<"1">>), PyNone}

PointsGeometries == {Dict([points |-> p]) : p \in PointsValues}

PathValues ==
    {Str(s) : s \in {<<>>, <<" ">>, <<"M", "1">>, <<" ", "z">>, <<"1", "M">>,
                     <<"X">>, <<"\n", "L", " ">>}}
    \cup {Num(1), PyNone}

PathGeometries == {Dict([path_data |-> p]) : p \in PathValues}

ChildrenValues ==
    {List(<<>>), List(<<Str(<<"a">>)>>), List(<<Str(<<>>)>>),
     List(<<Str(<<"a">>), Num(1)>>), Str(<<"a">>)}

GroupGeometries == {Dict([children |-> c]) : c \in ChildrenValues}

Geometries ==
    RectangleGeometries \cup CircleGeometries \cup EllipseGeometries \cup LineGeometries
    \cup PointsGeometries \cup PathGeometries \cup GroupGeometries

\* No Shape object: nothing was constructed, or the constructor raised.
NoShape == [type |-> "unbound", geometry |-> Dict(<<>>)]

\* Shape(type=..., geometry=...): the model validator runs; it raises or the
\* object exists.
Shape_new(shape_type, geometry) ==
    /\ IF validate_geometry(shape_type, geometry)
       THEN /\ shape' = [type |-> shape_type, geometry |-> geometry]
            /\ op' = Call("Shape", None, [type |-> shape_type, geometry |-> geometry], TRUE, None)
       ELSE /\ shape' = NoShape
            /\ op' = Call("Shape", None, [type |-> shape_type, geometry |-> geometry], FALSE, None)
    /\ UNCHANGED <<layer_vars, fill, rest_vars>>

\* shape.geometry = geometry: the class sets no validate_assignment, so
\* BaseModel.__setattr__ stores the value and runs no validator.
shape_set_geometry(geometry) ==
    /\ shape # NoShape
    /\ shape' = [shape EXCEPT !.geometry = geometry]
    /\ op' = Call("shape.geometry", None, geometry, TRUE, None)
    /\ UNCHANGED <<layer_vars, fill, rest_vars>>

\* shape.type = shape_type, stored the same way
shape_set_type(shape_type) ==
    /\ shape # NoShape
    /\ shape' = [shape EXCEPT !.type = shape_type]
    /\ op' = Call("shape.type", None, shape_type, TRUE, None)
    /\ UNCHANGED <<layer_vars, fill, rest_vars>>

\* ----------------------------------------------------- Shape.get_bounds

\* Python arithmetic on the numbers of a geometry: NaN spreads through + and
\* unary -, and every comparison with it is False.
py_neg(v) == IF v = NaN THEN NaN ELSE Num(- v.num)
py_add(a, b) == IF a = NaN \/ b = NaN THEN NaN ELSE Num(a.num + b.num)
py_lt(a, b) == a # NaN /\ b # NaN /\ a.num < b.num

RECURSIVE py_min(_)
\* min(values): the first value is kept until a later one is < it
py_min(values) ==
    IF Len(values) = 1 THEN values[1]
    ELSE LET kept == py_min(SubSeq(values, 1, Len(values) - 1)) IN
         IF py_lt(values[Len(values)], kept) THEN values[Len(values)] ELSE kept

RECURSIVE py_max(_)
\* max(values): the first value is kept until a later one is > it
py_max(values) ==
    IF Len(values) = 1 THEN values[1]
    ELSE LET kept == py_max(SubSeq(values, 1, Len(values) - 1)) IN
         IF py_lt(kept, values[Len(values)]) THEN values[Len(values)] ELSE kept

\* get_bounds returning None
NoBounds == <<>>

\* Shape._calculate_base_bounds on a shape whose geometry passed validation
calculate_base_bounds(s) ==
    LET geometry == s.geometry IN
    CASE s.type = "rectangle" -> <<Num(0), Num(0), geometry["width"], geometry["height"]>>
      [] s.type = "circle" ->
           <<py_neg(geometry["radius"]), py_neg(geometry["radius"]),
             geometry["radius"], geometry["radius"]>>
      [] s.type = "ellipse" ->
           <<py_neg(geometry["rx"]), py_neg(geometry["ry"]), geometry["rx"], geometry["ry"]>>
      [] s.type = "line" ->
           <<py_min(<<geometry["x1"], geometry["x2"]>>),
             py_min(<<geometry["y1"], geometry["y2"]>>),
             py_max(<<geometry["x1"], geometry["x2"]>>),
             py_max(<<geometry["y1"], geometry["y2"]>>)>>
      [] s.type \in {"polyline", "polygon"} ->
           LET points == geometry["points"].list
               xs == [k \in 1..Len(points) |-> points[k].list[1]]
               ys == [k \in 1..Len(points) |-> points[k].list[2]]
           IN IF points = <<>> THEN NoBounds
              ELSE <<py_min(xs), py_min(ys), py_max(xs), py_max(ys)>>
      [] OTHER -> NoBounds

\* get_bounds, lines 211-217: only the position of the transform is applied
apply_transform(base_bounds, transform) ==
    <<py_add(base_bounds[1], transform.x), py_add(base_bounds[2], transform.y),
      py_add(base_bounds[3], transform.x), py_add(base_bounds[4], transform.y)>>

\* Shape.get_bounds (a tuple of four is always truthy, so None comes from the base only)
get_bounds(s) ==
    LET base_bounds == calculate_base_bounds(s) IN
    IF base_bounds = NoBounds THEN NoBounds ELSE apply_transform(base_bounds, s.transform)

\* Transform(x=..., y=..., rotation=..., scale_x=..., scale_y=..., skew_x=..., skew_y=...)
Transforms ==
    [x : {Num(n) : n \in (-1)..MaxCoord}, y : {Num(0), Num(MaxCoord)},
     rotation : {0, 90}, scale_x : {1, 2}, scale_y : {1}, skew_x : {0}, skew_y : {0, 1}]

\* Shape(type=..., geometry=..., transform=...)
Shape_new_transformed(shape_type, geometry, transform) ==
    /\ LET given == [type |-> shape_type, geometry |-> geometry, transform |-> transform] IN
       IF validate_geometry(shape_type, geometry)
       THEN /\ shape' = given
            /\ op' = Call("Shape", None, given, TRUE, None)
       ELSE /\ shape' = NoShape
            /\ op' = Call("Shape", None, given, FALSE, None)
    /\ UNCHANGED <<layer_vars, fill, rest_vars>>

\* shape.get_bounds(), a query: the tuple returned (or NoBounds) is op.val
call_get_bounds ==
    /\ op.name = "Shape" /\ op.ok
    /\ op' = Call("get_bounds", None, None, TRUE, get_bounds(shape))
    /\ UNCHANGED <<layer_vars, value_vars>>

\* --------------------------------------------------------- FillProperties

\* Payload objects tried for each field: None or one of 1..MaxPayloads.
MaxPayloads == 2

FillTypes == {"solid", "linear-gradient", "radial-gradient", "pattern"}
PayloadFields == {"color", "linear_gradient", "radial_gradient", "pattern"}
Payloads == {None} \cup 1..MaxPayloads

\* The payload field that goes with a fill type.
payload_field(fill_type) ==
    CASE fill_type = "solid"           -> "color"
      [] fill_type = "linear-gradient" -> "linear_gradient"
      [] fill_type = "radial-gradient" -> "radial_gradient"
      [] fill_type = "pattern"         -> "pattern"

\* A validator that leaves the unused payloads in place.
clear_unused_kept(f) == f

\* validate_fill_consistency, lines 204-212: every field but the tag's is set to None.
clear_unused(f) ==
    [type            |-> f.type,
     color           |-> IF f.type # "solid" THEN None ELSE f.color,
     linear_gradient |-> IF f.type # "linear-gradient" THEN None ELSE f.linear_gradient,
     radial_gradient |-> IF f.type # "radial-gradient" THEN None ELSE f.radial_gradient,
     pattern         |-> IF f.type # "pattern" THEN None ELSE f.pattern]

\* validate_fill_consistency, lines 195-202: TRUE when InvalidStyleError is raised
\* (`not payload` is true of None only: a pydantic model is always truthy).
fill_raises(f) ==
    \/ f.type = "solid" /\ f.color = None
    \/ f.type = "linear-gradient" /\ f.linear_gradient = None
    \/ f.type = "radial-gradient" /\ f.radial_gradient = None
    \/ f.type = "pattern" /\ f.pattern = None

\* No FillProperties object.
NoFill ==
    [type |-> "unbound", color |-> None, linear_gradient |-> None,
     radial_gradient |-> None, pattern |-> None]

\* FillProperties(type=..., color=..., linear_gradient=..., radial_gradient=..., pattern=...)
FillProperties_new(given) ==
    /\ IF fill_raises(given)
       THEN /\ fill' = NoFill
            /\ op' = Call("FillProperties", None, given, FALSE, None)
       ELSE /\ fill' = clear_unused(given)
            /\ op' = Call("FillProperties", None, given, TRUE, None)
    /\ UNCHANGED <<layer_vars, shape, rest_vars>>

\* fill.type = fill_type: no validate_assignment, the value is stored unchecked.
fill_set_type(fill_type) ==
    /\ fill # NoFill
    /\ fill' = [fill EXCEPT !.type = fill_type]
    /\ op' = Call("fill.type", None, fill_type, TRUE, None)
    /\ UNCHANGED <<layer_vars, shape, rest_vars>>

FillInputs ==
    [type : FillTypes, color : Payloads, linear_gradient : Payloads,
     radial_gradient : Payloads, pattern : Payloads]

\* No gradient object.
NoGradient == [kind |-> "unbound", stops |-> <<>>]

\* -------------------------------------------------------------- gradients

\* Stops per list tried, and positions 0..MaxPosition (in steps of the unit chosen).
MaxStops == 3
MaxPosition == 2

\* GradientStop(position, color); two colors tell stops of one position apart.
GradientStops == [position : 0..MaxPosition, color : 1..2]
StopLists == UNION {[1..n -> GradientStops] : n \in 0..MaxStops}

\* A validator that returns the stops in the order given.
sorted_stops_as_given(v) == v

\* sorted(v, key=lambda stop: stop.position): stable
sorted_stops(v) == sort_by_z([s \in {v[i] : i \in 1..Len(v)} |-> s.position], v)

\* validate_stops of LinearGradient and of RadialGradient (the same body twice),
\* behind the field's min_length=2, which pydantic checks first.
validate_stops(v) ==
    IF Len(v) < 2
    THEN [ok |-> FALSE, error |-> "ValidationError", stops |-> <<>>]
    ELSE LET positions == {sorted_stops(v)[i].position : i \in 1..Len(v)} IN
         IF Cardinality(positions) # Len(v)
         THEN [ok |-> FALSE, error |-> "InvalidStyleError", stops |-> <<>>]
         ELSE [ok |-> TRUE, error |-> None, stops |-> sorted_stops(v)]

\* LinearGradient(stops=v) / RadialGradient(stops=v).  A construction reads no
\* earlier state, so each behaviour makes one.
Gradient_new(gradient_kind, v) ==
    /\ op.name = "init"
    /\ LET validated == validate_stops(v) IN
       /\ gradient' = IF validated.ok
                      THEN [kind |-> gradient_kind, stops |-> validated.stops]
                      ELSE NoGradient
       /\ op' = Call(gradient_kind, None, v, validated.ok, validated.error)
    /\ UNCHANGED <<layer_vars, shape, fill, shapes, layer_shapes, color>>

\* No HexColor object.
NoColor == [value |-> <<>>, rgba |-> None, hex |-> <<>>]

\* ----------------------------------------------------------------- colors

\* A str is the sequence of its characters.
UpperDigits == <<"0", "1", "2", "3", "4", "5", "6", "7", "8", "9", "A", "B", "C", "D", "E", "F">>
LowerDigits == <<"0", "1", "2", "3", "4", "5", "6", "7", "8", "9", "a", "b", "c", "d", "e", "f">>

\* [0-9A-Fa-f]
is_hex_digit(c) == \E k \in 1..16 : c = UpperDigits[k] \/ c = LowerDigits[k]

\* int(c, 16) for one hex digit c
digit_value(c) == (CHOOSE k \in 1..16 : c = UpperDigits[k] \/ c = LowerDigits[k]) - 1

\* str.upper() on a string of hex digits
upper(s) == [i \in 1..Len(s) |-> UpperDigits[digit_value(s[i]) + 1]]

\* int(s, 16) for two hex digits
int16(s) == 16 * digit_value(s[1]) + digit_value(s[2])

\* format(n, '02x'), 0 <= n <= 255
format_02x(n) == <<LowerDigits[(n \div 16) + 1], LowerDigits[(n % 16) + 1]>>

\* HexColor.validate_hex_color on a str v: the stored value, or <<>> when it raises.
validate_hex_color(v) ==
    LET w == IF v # <<>> /\ v[1] = "#" THEN Tail(v) ELSE v IN
    IF Len(w) \notin {6, 8} THEN <<>>
    ELSE IF \E i \in 1..Len(w) : ~ is_hex_digit(w[i]) THEN <<>>
    ELSE <<"#">> \o upper(w)

\* HexColor.to_rgba; a is kept as the numerator n of n / 255.0 (1.0 is 255 / 255.0).
to_rgba(value) ==
    LET hex_value == Tail(value) IN
    [r |-> int16(SubSeq(hex_value, 1, 2)),
     g |-> int16(SubSeq(hex_value, 3, 4)),
     b |-> int16(SubSeq(hex_value, 5, 6)),
     a |-> IF Len(hex_value) = 8 THEN int16(SubSeq(hex_value, 7, 8)) ELSE 255]

\* RGBAColor.to_hex; round(a * 255) gives back the numerator of a.
to_hex(rgba) ==
    <<"#">> \o format_02x(rgba.r) \o format_02x(rgba.g) \o format_02x(rgba.b)
            \o format_02x(rgba.a)

\* The characters the strings tried are made of, and the strings.
CharsTried == {"0", "a", "F"}
HexStrings ==
    LET bare == [1..6 -> CharsTried] \cup [1..8 -> CharsTried]
                \cup {<<>>, <<"0", "a", "F", "0", "a">>, <<"0", "a", "F", "0", "a", "F", "0">>,
                      <<"0", "a", "F", "0", "a", "g">>, <<"0", "a", "#", "0", "a", "F">>}
    IN bare \cup {<<"#">> \o s : s \in bare}

\* HexColor(value=v).  A construction reads no earlier state, so each behaviour
\* makes one.
HexColor_new(v) ==
    /\ op.name = "init"
    /\ LET value == validate_hex_color(v) IN
       /\ color' = [NoColor EXCEPT !.value = value]
       /\ op' = Call("HexColor", None, v, value # <<>>, None)
    /\ UNCHANGED <<layer_vars, shape, fill, shapes, layer_shapes, gradient>>

\* rgba = color.to_rgba()
call_to_rgba ==
    /\ op.name = "HexColor" /\ op.ok
    /\ color' = [color EXCEPT !.rgba = to_rgba(color.value)]
    /\ op' = Call("to_rgba", None, None, TRUE, to_rgba(color.value))
    /\ UNCHANGED <<layer_vars, shape, fill, shapes, layer_shapes, gradient>>

\* rgba.to_hex()
call_to_hex ==
    /\ op.name = "to_rgba"
    /\ color' = [color EXCEPT !.hex = to_hex(color.rgba)]
    /\ op' = Call("to_hex", None, None, TRUE, to_hex(color.rgba))
    /\ UNCHANGED <<layer_vars, shape, fill, shapes, layer_shapes, gradient>>

\* -------------------------------------------------------- DrawingDocument

\* Shape entries the layers of a document hold together, at most.
MaxDocShapes == 2

RECURSIVE total_shapes(_, _)
total_shapes(ls, n) == IF n = 0 THEN 0 ELSE Len(ls[n]) + total_shapes(ls, n - 1)

\* The layers a caller can hold a reference to: created, reachable or not.
LayerObjects == {n \in NodeIds : kind[n] = "layer"}

\* layer.add_shape(x) on a layer of the document
layer_add_shape(layer, x) ==
    /\ total_shapes(layer_shapes, MaxNodes + 1) < MaxDocShapes
    /\ layer_shapes' = [layer_shapes EXCEPT ![layer] = add_shape(@, x)]
    /\ op' = Call("layer.add_shape", layer, x, TRUE, None)
    /\ UNCHANGED <<layer_vars, shape, fill, shapes, gradient, color>>

\* Layer.is_empty
is_empty(ls, layer) == Len(ls[layer]) = 0

\* LayerManager.delete_layer as a function of the manager's state m (children,
\* parent_id, active_layer_id): the state after the call and what it returned.
delete_layer_in(kd, m, layer_id) ==
    LET layer == find_layer_by_id(kd, m.children, root_id, layer_id)
        parent == find_parent_group(kd, m.children, layer_id)
        removed == remove_child(m.children, m.parent_id, parent, layer_id)
    IN IF layer = None \/ parent = None
       THEN [ok |-> FALSE, children |-> m.children, parent_id |-> m.parent_id,
             active_layer_id |-> m.active_layer_id]
       ELSE [ok |-> removed.ok, children |-> removed.children,
             parent_id |-> removed.parent_id,
             active_layer_id |-> active_after_delete(m.active_layer_id, layer_id)]

\* A cleanup that deletes every layer it is given, empty or not.
empty_layers_all(kd, ch, ls) == get_all_layers(kd, ch, root_id)

\* cleanup_empty_layers, line 282: the empty layers, in traversal order
empty_layers(kd, ch, ls) ==
    SelectSeq(get_all_layers(kd, ch, root_id), LAMBDA layer : is_empty(ls, layer))

RECURSIVE delete_each(_, _, _, _)
\* cleanup_empty_layers, lines 285-287: delete_layer for each, counting the True answers
delete_each(kd, m, layers, removed_count) ==
    IF layers = <<>>
    THEN [children |-> m.children, parent_id |-> m.parent_id,
          active_layer_id |-> m.active_layer_id, removed_count |-> removed_count]
    ELSE LET deleted == delete_layer_in(kd, m, Head(layers)) IN
         delete_each(kd, deleted, Tail(layers),
                     IF deleted.ok THEN removed_count + 1 ELSE removed_count)

\* DrawingDocument.cleanup_empty_layers(); the count returned is op.val
cleanup_empty_layers ==
    /\ LET m == [children |-> children, parent_id |-> parent_id,
                 active_layer_id |-> active_layer_id]
           done == delete_each(kind, m, empty_layers(kind, children, layer_shapes), 0)
       IN /\ children' = done.children
          /\ parent_id' = done.parent_id
          /\ active_layer_id' = done.active_layer_id
          /\ op' = Call("cleanup_empty_layers", None, None, TRUE, done.removed_count)
    /\ UNCHANGED <<kind, z_index, next_id, value_vars>>

RECURSIVE extend_shapes_backwards(_, _)
\* A flattening that takes the layers last to first.
extend_shapes_backwards(ls, layers) ==
    IF layers = <<>> THEN <<>>
    ELSE extend_shapes_backwards(ls, Tail(layers)) \o ls[Head(layers)]

RECURSIVE extend_shapes(_, _)
\* The loop of get_all_shapes: shapes.extend(layer.shapes) for each layer
extend_shapes(ls, layers) ==
    IF layers = <<>> THEN <<>>
    ELSE ls[Head(layers)] \o extend_shapes(ls, Tail(layers))

\* LayerGroup.get_all_shapes(recursive)
get_all_shapes(kd, ch, ls, g, recursive) ==
    extend_shapes(ls, IF recursive THEN get_all_layers(kd, ch, g)
                      ELSE get_direct_layers(kd, ch, g))

\* g.get_all_shapes(recursive), a query: the list returned is op.val
call_get_all_shapes(g, recursive) ==
    /\ op' = Call("get_all_shapes", g, recursive, TRUE,
                  get_all_shapes(kind, children, layer_shapes, g, recursive))
    /\ UNCHANGED <<layer_vars, value_vars>>

RECURSIVE sum_shape_counts(_, _)
\* The loop of get_total_shape_count: total += layer.get_shape_count()
sum_shape_counts(ls, layers) ==
    IF layers = <<>> THEN 0
    ELSE Len(ls[Head(layers)]) + sum_shape_counts(ls, Tail(layers))

\* DrawingDocument.get_total_shape_count(), a query
call_get_total_shape_count ==
    /\ op' = Call("get_total_shape_count", None, None, TRUE,
                  sum_shape_counts(layer_shapes, get_all_layers(kind, children, root_id)))
    /\ UNCHANGED <<layer_vars, value_vars>>

\* --------------------------------------------------------- specifications

\* LayerManager(): a root group named "Root", nothing active; no value object yet.
Init ==
    /\ kind = [n \in NodeIds |-> IF n = root_id THEN "group" ELSE "free"]
    /\ children = [n \in NodeIds |-> <<>>]
    /\ parent_id = [n \in NodeIds |-> None]
    /\ z_index = [n \in NodeIds |-> 0]
    /\ active_layer_id = None
    /\ next_id = root_id + 1
    /\ shape = NoShape
    /\ fill = NoFill
    /\ shapes = <<>>
    /\ layer_shapes = [n \in NodeIds |-> <<>>]
    /\ gradient = NoGradient
    /\ color = NoColor
    /\ op = Call("init", None, None, TRUE, None)

\* The hierarchy driven through LayerManager alone.
Next ==
    \/ \E parent \in GroupObjects \cup {None} : create_layer(parent)
    \/ \E parent \in GroupObjects \cup {None} : create_group(parent)
    \/ \E layer_id \in ArgIds : delete_layer(layer_id)
    \/ \E group_id \in ArgIds : delete_group(group_id)
    \/ \E layer_id \in ArgIds : set_active_layer(layer_id)
    \/ reorder_layers_by_z_index

Spec == Init /\ [][Next]_vars

\* Layers and groups constructed by the caller and wired with the LayerGroup methods.
NextGroup ==
    \/ new_layer
    \/ new_group
    \/ \E g \in GroupObjects, child \in Objects : call_add_child(g, child)
    \/ \E g \in GroupObjects, child \in GroupArgIds : call_remove_child(g, child)
    \/ \E g \in GroupObjects, child \in GroupArgIds, new_index \in (-1)..MaxEntries :
          call_move_child(g, child, new_index)

SpecGroup == Init /\ [][NextGroup]_vars

\* Groups wired by the caller and asked for their layers.
NextTraverse ==
    \/ new_layer
    \/ new_group
    \/ \E g \in GroupObjects, child \in Objects : call_add_child(g, child)
    \/ \E g \in GroupObjects, recursive \in BOOLEAN : call_get_all_layers(g, recursive)
    \/ \E g \in GroupObjects, layer_id \in GroupArgIds : call_find_layer_by_id(g, layer_id)
    \/ \E g \in GroupObjects, group_id \in GroupArgIds : call_find_group_by_id(g, group_id)

SpecTraverse == Init /\ [][NextTraverse]_vars

\* The manager with z_index values assigned: ordering and reordering.
NextOrder ==
    \/ \E parent \in GroupObjects \cup {None} : order_create_layer(parent)
    \/ \E parent \in GroupObjects \cup {None} : order_create_group(parent)
    \/ \E n \in Objects, z \in ZValues : set_z_index(n, z)
    \/ reorder_layers_by_z_index
    \/ call_get_layers_by_z_order

SpecOrder == Init /\ [][NextOrder]_vars

\* A manager that is built, given z_index values, dumped and validated back.
NextRoundTrip ==
    \/ \E parent \in GroupObjects \cup {None} : order_create_layer(parent)
    \/ \E parent \in GroupObjects \cup {None} : order_create_group(parent)
    \/ \E n \in Objects, z \in ZValues : set_z_index(n, z)
    \/ \E union_mode \in UnionModes : round_trip(union_mode)

SpecRoundTrip == Init /\ [][NextRoundTrip]_vars

\* The manager with z_index values assigned and nodes deleted.
NextTree ==
    \/ \E parent \in GroupObjects \cup {None} : tree_create_layer(parent)
    \/ \E parent \in GroupObjects \cup {None} : tree_create_group(parent)
    \/ \E n \in Objects, z \in ZValues : set_z_index(n, z)
    \/ \E layer_id \in ArgIds : delete_layer(layer_id)
    \/ \E group_id \in ArgIds : delete_group(group_id)
    \/ reorder_layers_by_z_index

SpecTree == Init /\ [][NextTree]_vars

\* A document: layers and groups created through it, shapes added to its layers,
\* layers and groups deleted, empty layers cleaned up.
NextDocument ==
    \/ \E parent \in GroupObjects \cup {None} : tree_create_layer(parent)
    \/ \E parent \in GroupObjects \cup {None} : tree_create_group(parent)
    \/ \E layer \in LayerObjects, x \in {ShapeObj(i) : i \in 1..MaxShapes} : layer_add_shape(layer, x)
    \/ \E layer_id \in ArgIds : delete_layer(layer_id)
    \/ \E group_id \in ArgIds : delete_group(group_id)
    \/ cleanup_empty_layers

SpecDocument == Init /\ [][NextDocument]_vars

\* A document whose groups are asked for their shapes.
NextShapes ==
    \/ \E parent \in GroupObjects \cup {None} : order_create_layer(parent)
    \/ \E parent \in GroupObjects \cup {None} : order_create_group(parent)
    \/ \E layer \in LayerObjects, x \in ShapeArgs : layer_add_shape(layer, x)
    \/ \E g \in GroupObjects, recursive \in BOOLEAN : call_get_all_shapes(g, recursive)
    \/ call_get_total_shape_count

SpecShapes == Init /\ [][NextShapes]_vars

\* One Shape: constructed, then assigned to.
NextShape ==
    \/ \E shape_type \in ShapeTypes, geometry \in Geometries : Shape_new(shape_type, geometry)
    \/ \E geometry \in Geometries : shape_set_geometry(geometry)
    \/ \E shape_type \in ShapeTypes : shape_set_type(shape_type)

SpecShape == Init /\ [][NextShape]_vars

\* One Shape, constructed with a transform and asked for its bounds.
\* A construction reads no earlier state, so each behaviour makes one.
NextBounds ==
    \/ /\ op.name = "init"
       /\ \E shape_type \in ShapeTypes, geometry \in Geometries, transform \in Transforms :
             Shape_new_transformed(shape_type, geometry, transform)
    \/ call_get_bounds

SpecBounds == Init /\ [][NextBounds]_vars

\* One FillProperties: constructed, then assigned to.
NextFill ==
    \/ \E given \in FillInputs : FillProperties_new(given)
    \/ \E fill_type \in FillTypes : fill_set_type(fill_type)

SpecFill == Init /\ [][NextFill]_vars

\* One Layer, from empty, driven with its shape methods.
NextLayer ==
    \/ \E x \in ShapeArgs : call_add_shape(x)
    \/ \E x \in ShapeArgs : call_remove_shape(x)
    \/ \E x \in ShapeArgs, new_index \in (-1)..(2 * MaxShapes + 1) : call_move_shape(x, new_index)
    \/ clear_shapes

SpecLayer == Init /\ [][NextLayer]_vars

\* Gradients constructed from stop lists.
NextGradient ==
    \/ \E v \in StopLists : Gradient_new("LinearGradient", v)
    \/ \E v \in StopLists : Gradient_new("RadialGradient", v)

SpecGradient == Init /\ [][NextGradient]_vars

\* A HexColor, converted to RGBA and back to a hex string.
NextColor ==
    \/ \E v \in HexStrings : HexColor_new(v)
    \/ call_to_rgba
    \/ call_to_hex

SpecColor == Init /\ [][NextColor]_vars

\* ----------------------------------------------------------------- claims

\* What the claims mean by "reachable", computed without the library's searches:
\* the least set of nodes holding the members of S and every child of a group in it.
RECURSIVE ReachableFrom(_, _, _)
ReachableFrom(kd, ch, S) ==
    LET T == S \cup {c \in NodeIds : \E g \in S :
                        kd[g] = "group" /\ \E i \in 1..Len(ch[g]) : ch[g][i] = c}
    IN IF T = S THEN S ELSE ReachableFrom(kd, ch, T)

Reachable(kd, ch) == ReachableFrom(kd, ch, {root_id})
ReachableLayers(kd, ch) == {n \in Reachable(kd, ch) : kd[n] = "layer"}
ReachableGroups(kd, ch) == {n \in Reachable(kd, ch) : kd[n] = "group"}
Range(seq) == {seq[i] : i \in 1..Len(seq)}

\* C1: under LayerManager operations active_layer_id is unset or names a layer
\* reachable from the root, and it is cleared whenever the active layer stops
\* being reachable: a step that takes the active layer out of the root's tree
\* leaves active_layer_id None.
C1_ActiveClearedWhenDeleted ==
    [][(/\ active_layer_id \in ReachableLayers(kind, children)
        /\ active_layer_id \notin ReachableLayers(kind', children'))
       => active_layer_id' = None]_vars

\* C2: after any add_child / remove_child / move_child calls, a node's parent_id
\* is g exactly when the node is in g.children, and None exactly when no group
\* holds it.
C2_ParentConsistent ==
    \A n \in Objects :
        /\ \A g \in GroupObjects : (parent_id[n] = g) <=> (n \in Range(children[g]))
        /\ (parent_id[n] = None) <=> (\A g \in GroupObjects : n \notin Range(children[g]))

\* C3: assigning a valid Shape a geometry or type that fails the per-kind rule
\* raises and leaves the shape as it was.
C3_InvalidMutationRejected ==
    [][(/\ op'.name \in {"shape.geometry", "shape.type"}
        /\ validate_geometry(shape.type, shape.geometry)
        /\ ~ validate_geometry(IF op'.name = "shape.type" THEN op'.arg ELSE shape.type,
                               IF op'.name = "shape.geometry" THEN op'.arg ELSE shape.geometry))
       => (~ op'.ok /\ shape' = shape)]_vars

\* C4: FillProperties(type=T, ...) raises exactly when the payload of T is not
\* given; when it returns, the payload of T is the one given and the three other
\* payload fields are None, whatever was passed for them.
C4_FillConstruction ==
    op.name = "FillProperties" =>
        LET given == op.arg
            f == payload_field(given.type)
        IN /\ op.ok <=> (given[f] # None)
           /\ op.ok => /\ fill.type = given.type
                       /\ fill[f] = given[f]
                       /\ \A h \in PayloadFields \ {f} : fill[h] = None

\* C4 witness: a construction that returned although a payload of another tag
\* was passed along.
C4_Witness ==
    /\ op.name = "FillProperties" /\ op.ok
    /\ \E h \in PayloadFields \ {payload_field(op.arg.type)} : op.arg[h] # None

\* C5: setting the type of a Solid fill to Pattern when it has no pattern data
\* raises and leaves the fill unchanged.
C5_SolidToPatternRejected ==
    [][(/\ op'.name = "fill.type"
        /\ fill.type = "solid" /\ fill.color # None /\ fill.pattern = None
        /\ op'.arg = "pattern")
       => (~ op'.ok /\ fill' = fill)]_vars

\* C6: delete_group(root_group.id) returns False and changes neither the
\* hierarchy nor active_layer_id.
C6_DeleteRootRefused ==
    [][(op'.name = "delete_group" /\ op'.arg = root_id)
       => (~ op'.ok /\ UNCHANGED <<tree, active_layer_id>>)]_vars

\* C6 witness: delete_group(root) was called on a tree with children and an
\* active layer.
C6_Witness ==
    /\ op.name = "delete_group" /\ op.arg = root_id
    /\ children[root_id] # <<>> /\ active_layer_id # None

\* C7: delete_layer(id) returns False and changes nothing when no layer with
\* that id is reachable from root; when it returns True the layer is no longer
\* found, the layer count is one less, and active_layer_id is cleared if it was id
\* and is otherwise unchanged.
C7_DeleteLayer ==
    [][op'.name = "delete_layer" =>
        LET id == op'.arg IN
        /\ id \notin ReachableLayers(kind, children)
             => (~ op'.ok /\ UNCHANGED <<tree, active_layer_id>>)
        /\ op'.ok =>
             /\ find_layer_by_id(kind', children', root_id, id) = None
             /\ Len(get_all_layers(kind', children', root_id))
                  = Len(get_all_layers(kind, children, root_id)) - 1
             /\ active_layer_id' = IF active_layer_id = id THEN None ELSE active_layer_id
        /\ ~ op'.ok => active_layer_id' = active_layer_id]_vars

\* C7 witness: the only layer ever created, which was active, has been deleted.
C7_Witness ==
    /\ op.name = "delete_layer" /\ op.ok
    /\ next_id = root_id + 2 /\ kind[op.arg] = "layer"
    /\ active_layer_id = None

\* C8: delete_group(id) of a reachable group other than the root returns True;
\* afterwards the group is not found and nothing of its subtree is reachable.
C8_DeleteGroupSubtree ==
    [][(/\ op'.name = "delete_group"
        /\ op'.arg # root_id
        /\ op'.arg \in ReachableGroups(kind, children))
       => LET id == op'.arg
              subtree == ReachableFrom(kind, children, {id})
          IN /\ op'.ok
             /\ find_group_by_id(kind', children', root_id, id) = None
             /\ \A d \in subtree :
                  /\ d \notin Reachable(kind', children')
                  /\ d \notin Range(get_all_layers(kind', children', root_id))
                  /\ find_layer_by_id(kind', children', root_id, d) = None
                  /\ kind[d] = "group" => find_group_by_id(kind', children', root_id, d) = None]_vars

\* C8 witness: a group was deleted that holds a group that holds a layer.
C8_Witness ==
    /\ op.name = "delete_group" /\ op.ok
    /\ \E g \in Range(children[op.arg]) :
          /\ kind[g] = "group"
          /\ \E l \in Range(children[g]) : kind[l] = "layer"

\* C9: create_layer appends a layer with a fresh id as the last child of the
\* parent given (root when none is), with parent_id that group; it becomes active
\* exactly when no layer was active, and else active_layer_id is unchanged.
C9_CreateLayer ==
    [][op'.name = "create_layer" =>
        LET layer == op'.val
            target == IF op'.arg = None THEN root_id ELSE op'.arg
        IN /\ kind[layer] = "free"
           /\ kind'[layer] = "layer"
           /\ children'[target] = Append(children[target], layer)
           /\ \A g \in NodeIds \ {target} : children'[g] = children[g]
           /\ parent_id'[layer] = target
           /\ active_layer_id = None => active_layer_id' = layer
           /\ active_layer_id # None => active_layer_id' = active_layer_id]_vars

\* C9 witness: a layer was created in a group other than the root, behind an
\* earlier child, while another layer was active.
C9_Witness ==
    /\ op.name = "create_layer" /\ op.arg \notin {None, root_id}
    /\ Len(children[op.arg]) > 1
    /\ active_layer_id \notin {None, op.val}

\* C10: set_active_layer(id) returns True and makes id active exactly when id is
\* a layer reachable from root; otherwise it returns False and active_layer_id
\* keeps its value.
C10_SetActiveLayer ==
    [][op'.name = "set_active_layer" =>
        LET id == op'.arg IN
        /\ op'.ok <=> (id \in ReachableLayers(kind, children))
        /\ op'.ok => active_layer_id' = id
        /\ ~ op'.ok => active_layer_id' = active_layer_id
        /\ UNCHANGED tree]_vars

\* C10 witness: set_active_layer was refused for the id of a reachable group
\* while some layer was active.
C10_Witness ==
    /\ op.name = "set_active_layer" /\ ~ op.ok
    /\ op.arg \in ReachableGroups(kind, children)
    /\ active_layer_id # None

\* The first index of x in seq, 0 when x is not in it (claim-side, by counting).
FirstAt(seq, x) ==
    IF x \in Range(seq)
    THEN Len(seq) + 1 - Cardinality({i \in 1..Len(seq) : \E j \in 1..i : seq[j] = x})
    ELSE 0

\* seq without its i-th element
Without(seq, i) == [k \in 1..(Len(seq) - 1) |-> IF k < i THEN seq[k] ELSE seq[k + 1]]

\* clamp(v, lo, hi)
Clamp(v, lo, hi) == IF v < lo THEN lo ELSE IF v > hi THEN hi ELSE v

\* C11: g.remove_child(c) looks at g's direct children only: when one matches,
\* True is returned, c is no longer among g's children and c's parent_id is None;
\* when none matches (c may sit deeper down), False is returned and every children
\* list and every parent_id is unchanged.
C11_RemoveChild ==
    [][op'.name = "remove_child" =>
        LET g == op'.on
            c == op'.arg
        IN IF c \in Range(children[g])
           THEN /\ op'.ok
                /\ c \notin Range(children'[g])
                /\ parent_id'[c] = None
                /\ \A h \in NodeIds \ {g} : children'[h] = children[h]
                /\ \A n \in NodeIds \ {c} : parent_id'[n] = parent_id[n]
           ELSE /\ ~ op'.ok
                /\ UNCHANGED <<kind, children, parent_id>>]_vars

\* C12: g.move_child(c, new_index) with c a direct child of g returns True and
\* leaves c at index clamp(new_index, 0, n - 1), n the number of children, the
\* other children in their order; with c not a direct child it returns False and
\* the order is unchanged.  No parent_id changes either way.
C12_MoveChild ==
    [][op'.name = "move_child" =>
        LET g == op'.on
            c == op'.arg
            n == Len(children[g])
            at == Clamp(op'.val, 0, n - 1) + 1
        IN /\ IF c \in Range(children[g])
              THEN /\ op'.ok
                   /\ Len(children'[g]) = n
                   /\ children'[g][at] = c
                   /\ Without(children'[g], at) = Without(children[g], FirstAt(children[g], c))
              ELSE /\ ~ op'.ok
                   /\ children'[g] = children[g]
           /\ \A h \in NodeIds \ {g} : children'[h] = children[h]
           /\ UNCHANGED <<kind, parent_id>>]_vars

\* C12 witness: a move with an index below zero was made in a group of two
\* different children.
C12_Witness ==
    /\ op.name = "move_child" /\ op.ok /\ op.val < 0
    /\ Len(children[op.on]) = 2
    /\ children[op.on][1] # children[op.on][2]

\* C12 witness, the other end: an index beyond the last position was clamped.
C12_WitnessBeyond ==
    /\ op.name = "move_child" /\ op.ok /\ op.val > Len(children[op.on]) - 1
    /\ Len(children[op.on]) = 2
    /\ children[op.on][1] # children[op.on][2]


\* No two entries of seq are equal.
NoDuplicates(seq) == \A i, j \in 1..Len(seq) : seq[i] = seq[j] => i = j

\* C13: layer.move_shape(x, new_index) on a layer of n shapes that holds x returns
\* True and puts x at index clamp(new_index, 0, n - 1), the other shapes keeping
\* their relative order; for an x that is not in the layer it returns False and
\* shapes is unchanged.
C13_MoveShape ==
    [][op'.name = "move_shape" =>
        LET x == op'.arg
            n == Len(shapes)
            at == Clamp(op'.val, 0, n - 1) + 1
        IN IF x \in Range(shapes)
           THEN /\ op'.ok
                /\ Len(shapes') = n
                /\ shapes'[at] = x
                /\ Without(shapes', at) = Without(shapes, FirstAt(shapes, x))
           ELSE /\ ~ op'.ok
                /\ shapes' = shapes]_vars

\* C13 witness: on a layer of three shapes or more, a shape that was not last
\* was moved with an index beyond the end and now is last.
C13_Witness ==
    /\ op.name = "move_shape" /\ op.ok
    /\ Len(shapes) >= 3 /\ op.val > Len(shapes)
    /\ shapes[Len(shapes)] = op.arg

\* C14: add_shape of an entry already present leaves shapes unchanged and of an
\* absent one appends it; from an empty layer, under add_shape, remove_shape,
\* move_shape and clear_shapes, shapes never holds two equal entries; and after
\* remove_shape(x) returned True, x is not in the layer.
C14_NoDuplicateShapes ==
    /\ [] NoDuplicates(shapes)
    /\ [][/\ op'.name = "add_shape" =>
               shapes' = IF op'.arg \in Range(shapes) THEN shapes ELSE Append(shapes, op'.arg)
          /\ (op'.name = "remove_shape" /\ op'.ok) => op'.arg \notin Range(shapes')]_vars

\* C14 witness: add_shape was called with an entry the layer already held, next
\* to another entry.
C14_Witness ==
    /\ op.name = "add_shape"
    /\ Len(shapes) >= 2
    /\ shapes[Len(shapes)] # op.arg
    /\ op.arg \in Range(shapes)


\* The rules of C15, in the claim's words.
Numeric(v) == DOMAIN v \in {{"num"}, {"nan"}}
Positive(v) == DOMAIN v = {"num"} /\ v.num > 0
NonNegative(v) == DOMAIN v = {"num"} /\ v.num >= 0
PointList(g, least) ==
    /\ "points" \in DOMAIN g
    /\ DOMAIN g["points"] = {"list"}
    /\ Len(g["points"].list) >= least
    /\ \A p \in Range(g["points"].list) :
          /\ DOMAIN p = {"list"}
          /\ Len(p.list) = 2
          /\ \A c \in Range(p.list) : Numeric(c)
FirstNonWhitespace(s) ==
    LET at == {i \in 1..Len(s) : s[i] \notin Whitespace}
    IN IF at = {} THEN "" ELSE s[CHOOSE i \in at : \A j \in at : i <= j]
GeometryRule(type, g) ==
    CASE type = "rectangle" ->
           /\ {"width", "height"} \subseteq DOMAIN g
           /\ Positive(g["width"]) /\ Positive(g["height"])
           /\ "corner_radius" \in DOMAIN g => NonNegative(g["corner_radius"])
      [] type = "circle" -> "radius" \in DOMAIN g /\ Positive(g["radius"])
      [] type = "ellipse" ->
           /\ {"rx", "ry"} \subseteq DOMAIN g
           /\ Positive(g["rx"]) /\ Positive(g["ry"])
      [] type = "line" ->
           /\ {"x1", "y1", "x2", "y2"} \subseteq DOMAIN g
           /\ \A k \in {"x1", "y1", "x2", "y2"} : Numeric(g[k])
      [] type = "polyline" -> PointList(g, 2)
      [] type = "polygon" -> PointList(g, 3)
      [] type = "path" ->
           /\ "path_data" \in DOMAIN g
           /\ DOMAIN g["path_data"] = {"str"}
           /\ FirstNonWhitespace(g["path_data"].str) \in
                {"M", "m", "L", "l", "H", "h", "V", "v", "C", "c", "S", "s",
                 "Q", "q", "T", "t", "A", "a", "Z", "z"}
      [] type = "group" ->
           /\ "children" \in DOMAIN g
           /\ DOMAIN g["children"] = {"list"}
           /\ \A c \in Range(g["children"].list) : DOMAIN c = {"str"}

\* C15: Shape(type, geometry) returns a shape exactly when the geometry satisfies
\* the rule of its kind (positive sizes, numeric coordinates, enough well-formed
\* points, a path that starts with a command letter, string children), and
\* raises InvalidGeometryError otherwise.
C15_ConstructionIffRule ==
    op.name = "Shape" =>
        /\ op.ok <=> GeometryRule(op.arg.type, op.arg.geometry)
        /\ op.ok => shape = op.arg


\* b holds the entries of a, each as often as a does.
Permutation(a, b) ==
    /\ Len(a) = Len(b)
    /\ \A x \in Range(a) \cup Range(b) :
          Cardinality({i \in 1..Len(a) : a[i] = x}) = Cardinality({i \in 1..Len(b) : b[i] = x})

\* C16: LinearGradient(stops) / RadialGradient(stops) is rejected for fewer than
\* two stops, is rejected with InvalidStyleError when two stops have the same
\* position, and otherwise stores a permutation of the stops given whose
\* positions increase strictly.
C16_GradientStops ==
    op.name \in {"LinearGradient", "RadialGradient"} =>
        LET v == op.arg
            twice == \E i, j \in 1..Len(v) : i # j /\ v[i].position = v[j].position
        IN /\ Len(v) < 2 => ~ op.ok
           /\ twice => (~ op.ok /\ op.val = "InvalidStyleError")
           /\ (Len(v) >= 2 /\ ~ twice) =>
                 /\ op.ok
                 /\ gradient.kind = op.name
                 /\ Permutation(v, gradient.stops)
                 /\ \A i \in 1..(Len(v) - 1) :
                       gradient.stops[i].position < gradient.stops[i + 1].position

\* C16 witness: three stops given out of order (middle, low, high) were stored.
C16_Witness ==
    /\ op.name \in {"LinearGradient", "RadialGradient"} /\ op.ok
    /\ Len(op.arg) = 3
    /\ op.arg[2].position < op.arg[1].position
    /\ op.arg[1].position < op.arg[3].position


\* '#' followed by 6 or 8 digits of 0-9 A-F
CanonicalHex(s) ==
    /\ Len(s) \in {7, 9}
    /\ s[1] = "#"
    /\ \A i \in 2..Len(s) : s[i] \in Range(UpperDigits)

\* C17: for a valid hex string s, HexColor(s).to_rgba().to_hex() is in the
\* canonical uppercase form, '#' and 6 or 8 uppercase hex digits, which is the form
\* HexColor stores its own value in.
C17_HexRoundTrip ==
    op.name = "to_hex" => (CanonicalHex(color.value) /\ CanonicalHex(color.hex))


\* seq is ordered by non-decreasing key, and entries of equal key stand in the
\* order they have in ref.
StableSorted(key, ref, seq) ==
    \A i, j \in 1..Len(seq) :
        i < j => /\ key[seq[i]] <= key[seq[j]]
                 /\ key[seq[i]] = key[seq[j]] => FirstAt(ref, seq[i]) < FirstAt(ref, seq[j])

C19_LayersByZOrder ==
    [][op'.name = "get_layers_by_z_order" =>
        LET all == get_all_layers(kind, children, root_id)
            returned == op'.val
        IN /\ Permutation(all, returned)
           /\ StableSorted(z_index, all, returned)
           /\ UNCHANGED <<tree, active_layer_id>>]_vars

\* C19 witness: three layers were returned in another order than the traversal's,
\* the first two of them with the same z_index.
C19_Witness ==
    /\ op.name = "get_layers_by_z_order"
    /\ Len(op.val) = 3
    /\ op.val # get_all_layers(kind, children, root_id)
    /\ z_index[op.val[1]] = z_index[op.val[2]]

\* C20: after reorder_layers_by_z_index(), the children of every group reachable
\* from root, root included, are the children it had, ordered by non-decreasing
\* z_index, children of equal z_index in the order they had before.
C20_ReorderByZIndex ==
    [][op'.name = "reorder_layers_by_z_index" =>
        /\ \A g \in ReachableGroups(kind, children) :
              /\ Permutation(children[g], children'[g])
              /\ StableSorted(z_index, children[g], children'[g])
        /\ UNCHANGED <<kind, parent_id, z_index, active_layer_id>>]_vars

\* C20 witness: a reorder left a nested group with its later-created child, of
\* lower z_index, in front of the earlier-created one.
C20_Witness ==
    /\ op.name = "reorder_layers_by_z_index"
    /\ \E g \in ReachableGroups(kind, children) \ {root_id} :
          /\ Len(children[g]) = 2
          /\ children[g][1] > children[g][2]
          /\ z_index[children[g][1]] < z_index[children[g][2]]


\* The nodes at or below node c, and the layers below group g.
AtOrBelow(kd, ch, c) == ReachableFrom(kd, ch, {c})
LayersBelow(kd, ch, g) ==
    {n \in ReachableFrom(kd, ch, Range(ch[g])) : kd[n] = "layer"}

\* seq lists nodes below g in depth-first pre-order: of any two entries the
\* earlier one lies at or below an earlier child of some group than the later.
PreOrder(kd, ch, g, seq) ==
    \A i, j \in 1..Len(seq) :
        i < j => \E h \in {n \in AtOrBelow(kd, ch, g) : kd[n] = "group"} :
                    \E p, q \in 1..Len(ch[h]) :
                        /\ p < q
                        /\ seq[i] \in AtOrBelow(kd, ch, ch[h][p])
                        /\ seq[j] \in AtOrBelow(kd, ch, ch[h][q])

\* The entries of seq that are layers, in order.
RECURSIVE LayersOf(_, _)
LayersOf(kd, seq) ==
    IF seq = <<>> THEN <<>>
    ELSE IF kd[Head(seq)] = "layer" THEN <<Head(seq)>> \o LayersOf(kd, Tail(seq))
    ELSE LayersOf(kd, Tail(seq))

\* C21: g.get_all_layers(recursive=True) returns the layers below g in depth-first
\* pre-order, each exactly once and no group; get_all_layers(recursive=False)
\* returns the direct children that are layers, in order, nested groups skipped.
C21_GetAllLayers ==
    (op.name = "get_all_layers") =>
        LET g == op.on
            returned == op.val
        IN /\ op.ok
           /\ \A i \in 1..Len(returned) : kind[returned[i]] = "layer"
           /\ IF op.arg
              THEN /\ Range(returned) = LayersBelow(kind, children, g)
                   /\ NoDuplicates(returned)
                   /\ PreOrder(kind, children, g, returned)
              ELSE returned = LayersOf(kind, children[g])


\* C22: g.find_group_by_id(id) returns g itself for its own id, otherwise the
\* group of that id below g, otherwise None; g.find_layer_by_id(id) returns the
\* layer of that id when one lies below g and None otherwise, never a group, so
\* it answers None for the id of any group, g's own included.
C22_FindById ==
    /\ (op.name = "find_group_by_id") =>
          LET g == op.on
              below == ReachableFrom(kind, children, Range(children[g]))
          IN /\ op.ok
             /\ IF op.arg = g THEN op.val = g
                ELSE IF op.arg \in below /\ kind[op.arg] = "group" THEN op.val = op.arg
                ELSE op.val = None
    /\ (op.name = "find_layer_by_id") =>
          /\ op.ok
          /\ IF op.arg \in LayersBelow(kind, children, op.on)
             THEN op.val = op.arg
             ELSE op.val = None


\* C23: cleanup_empty_layers() deletes every layer without shapes and no layer
\* with a shape: afterwards no layer reachable from the root is empty, every layer
\* that was reachable and not empty is still found by its id with its shapes
\* unchanged, and the count returned is the decrease of get_layer_count().
C23_CleanupEmptyLayers ==
    [][op'.name = "cleanup_empty_layers" =>
        /\ \A l \in ReachableLayers(kind', children') : layer_shapes'[l] # <<>>
        /\ \A l \in ReachableLayers(kind, children) :
              layer_shapes[l] # <<>> =>
                  /\ find_layer_by_id(kind', children', root_id, l) = l
                  /\ l \in ReachableLayers(kind', children')
                  /\ layer_shapes'[l] = layer_shapes[l]
        /\ op'.val = Len(get_all_layers(kind, children, root_id))
                       - Len(get_all_layers(kind', children', root_id))]_vars

\* C23 witness: a cleanup removed one layer and left a layer that holds a shape.
C23_Witness ==
    /\ op.name = "cleanup_empty_layers" /\ op.val = 1
    /\ \E l \in ReachableLayers(kind, children) : layer_shapes[l] # <<>>


\* The ID an argument or entry stands for, whichever arm it is.
IdOf(x) == IF "obj" \in DOMAIN x THEN x.obj ELSE x.id

\* C24: the shape methods of a layer find an entry through its ID, whichever arm
\* the entry and the argument are: add_shape adds nothing when an entry of that
\* ID is held, remove_shape and move_shape succeed exactly when one is; a layer
\* never holds a Shape and the ID of that shape, and get_shape_ids() never holds
\* one ID twice.
C24_UniformLookup ==
    /\ [] NoDuplicates(get_shape_ids(shapes))
    /\ [][LET held == \E k \in 1..Len(shapes) : IdOf(shapes[k]) = IdOf(op'.arg) IN
          /\ op'.name = "add_shape" /\ held => shapes' = shapes
          /\ op'.name \in {"remove_shape", "move_shape"} => (op'.ok <=> held)]_vars


\* a <= b between two results of Python arithmetic
LessOrEqual(a, b) == DOMAIN a = {"num"} /\ DOMAIN b = {"num"} /\ a.num <= b.num

\* v is the least (greatest) of the numbers in S
LeastOf(v, S) == v \in S /\ \A w \in S : LessOrEqual(v, w)
GreatestOf(v, S) == v \in S /\ \A w \in S : LessOrEqual(w, v)

\* box is the local axis-aligned box of shape s, of a kind that has one.
LocalBox(s, box) ==
    LET g == s.geometry IN
    CASE s.type = "rectangle" ->
           box = <<Num(0), Num(0), g["width"], g["height"]>>
      [] s.type = "circle" ->
           /\ box[3] = g["radius"] /\ box[4] = g["radius"]
           /\ DOMAIN box[1] = {"num"} /\ box[1].num = 0 - g["radius"].num /\ box[2] = box[1]
      [] s.type = "ellipse" ->
           /\ box[3] = g["rx"] /\ box[4] = g["ry"]
           /\ DOMAIN box[1] = {"num"} /\ box[1].num = 0 - g["rx"].num
           /\ DOMAIN box[2] = {"num"} /\ box[2].num = 0 - g["ry"].num
      [] s.type = "line" ->
           /\ LeastOf(box[1], {g["x1"], g["x2"]}) /\ GreatestOf(box[3], {g["x1"], g["x2"]})
           /\ LeastOf(box[2], {g["y1"], g["y2"]}) /\ GreatestOf(box[4], {g["y1"], g["y2"]})
      [] OTHER ->
           LET xs == {p.list[1] : p \in Range(g["points"].list)}
               ys == {p.list[2] : p \in Range(g["points"].list)}
           IN /\ LeastOf(box[1], xs) /\ GreatestOf(box[3], xs)
              /\ LeastOf(box[2], ys) /\ GreatestOf(box[4], ys)

\* C25: get_bounds() is None for a Path and a Group; for every other kind it is
\* the local box of the shape moved by the transform's x and y alone, whatever
\* the rotation, scale and skew, and min_x <= max_x and min_y <= max_y.
C25_GetBounds ==
    op.name = "get_bounds" =>
        IF shape.type \in {"path", "group"} THEN op.val = NoBounds
        ELSE /\ op.val # NoBounds
             /\ \E box \in [1..4 -> {Num(n) : n \in (-MaxCoord - 1)..(MaxCoord + 1)}] :
                   /\ LocalBox(shape, box)
                   /\ \A k \in {1, 3} : DOMAIN op.val[k] = {"num"}
                                        /\ op.val[k].num = box[k].num + shape.transform.x.num
                   /\ \A k \in {2, 4} : DOMAIN op.val[k] = {"num"}
                                        /\ op.val[k].num = box[k].num + shape.transform.y.num
             /\ LessOrEqual(op.val[1], op.val[3])
             /\ LessOrEqual(op.val[2], op.val[4])


\* The number of shape entries held by the first k layers of a list of layers.
RECURSIVE EntriesBefore(_, _, _)
EntriesBefore(ls, layers, k) ==
    IF k = 0 THEN 0 ELSE Len(ls[layers[k]]) + EntriesBefore(ls, layers, k - 1)

\* C26: g.get_all_shapes(recursive) is the concatenation of layer.shapes over
\* g.get_all_layers(recursive), layers in traversal order and the shapes of a
\* layer in the order it holds them; its length is the sum of get_shape_count()
\* over those layers, which for the root is what get_total_shape_count() reports.
C26_GetAllShapes ==
    /\ (op.name = "get_all_shapes") =>
          LET layers == IF op.arg THEN get_all_layers(kind, children, op.on)
                        ELSE LayersOf(kind, children[op.on])
              returned == op.val
          IN /\ Len(returned) = EntriesBefore(layer_shapes, layers, Len(layers))
             /\ \A k \in 1..Len(layers) : \A j \in 1..Len(layer_shapes[layers[k]]) :
                   returned[EntriesBefore(layer_shapes, layers, k - 1) + j]
                     = layer_shapes[layers[k]][j]
    /\ (op.name = "get_total_shape_count") =>
          op.val = Len(get_all_shapes(kind, children, layer_shapes, root_id, TRUE))

\* C26 witness: the root returned two different shapes, the first from a layer in
\* a nested group, the second from a layer created before that one.
C26_Witness ==
    /\ op.name = "get_all_shapes" /\ op.on = root_id /\ op.arg
    /\ Len(op.val) = 2 /\ op.val[1] # op.val[2]
    /\ \E l1, l2 \in ReachableLayers(kind, children) :
          /\ l1 > l2 /\ parent_id[l1] # root_id
          /\ layer_shapes[l1] = <<op.val[1]>> /\ layer_shapes[l2] = <<op.val[2]>>


\* The places node n occupies: the pairs of a reachable group and an index of its
\* children list at which n stands.
PlacesOf(kd, ch, n) ==
    {<<g, i>> \in ReachableGroups(kd, ch) \X (1..(MaxNodes + 1)) :
        i <= Len(ch[g]) /\ ch[g][i] = n}

\* C27: under LayerManager operations the hierarchy stays a well-formed tree: the
\* root is a group without a parent that no group holds, every other reachable
\* node stands at exactly one place, in a group whose id is its parent_id, no
\* group lies below itself, every create hands out an id no object has, and so
\* the traversal and the searches from the root end.
C27_WellFormedTree ==
    /\ [] /\ kind[root_id] = "group" /\ parent_id[root_id] = None
          /\ PlacesOf(kind, children, root_id) = {}
          /\ \A n \in Reachable(kind, children) \ {root_id} :
                /\ Cardinality(PlacesOf(kind, children, n)) = 1
                /\ \A place \in PlacesOf(kind, children, n) : parent_id[n] = place[1]
          /\ \A g \in ReachableGroups(kind, children) :
                g \notin ReachableFrom(kind, children, Range(children[g]))
          /\ ~ recursion_never_ends(kind, children, root_id)
          /\ \A id \in ArgIds :
                /\ find_layer_within(kind, children, root_id, id, 1, 1) # RecursionError
                /\ find_group_within(kind, children, root_id, id, 0, 1) # RecursionError
    /\ [][op'.name \in {"create_layer", "create_group"} => kind[op'.val] = "free"]_vars

\* C27 witness: a reorder put the node created later in front of the one created
\* first, both children of the root.
C27_Witness ==
    /\ op.name = "reorder_layers_by_z_index"
    /\ Len(children[root_id]) = 2
    /\ children[root_id][1] > children[root_id][2]


\* seq without its entries in S, the others in their order.
Removing(seq, S) == SelectSeq(seq, LAMBDA x : x \notin S)

\* C28: a successful delete_layer(id) or delete_group(id) takes the node of that
\* id, with its subtree, out of the hierarchy and changes nothing else: every
\* other node keeps its place, its parent_id, its z_index and its shapes, every
\* group keeps its other children in their order, and get_all_layers() is what
\* it was with the removed layers left out.
C28_DeleteFrame ==
    [][op'.name \in {"delete_layer", "delete_group"} /\ op'.ok =>
        LET target == op'.arg
            removed == AtOrBelow(kind, children, target)
        IN /\ Reachable(kind', children') = Reachable(kind, children) \ removed
           /\ \A n \in NodeIds \ {target} : parent_id'[n] = parent_id[n]
           /\ UNCHANGED <<kind, z_index, layer_shapes>>
           /\ \A g \in GroupObjects : children'[g] = Removing(children[g], {target})
           /\ get_all_layers(kind', children', root_id)
                = Removing(get_all_layers(kind, children, root_id), removed)]_vars

\* C28 witness: the middle one of three children of the root was deleted.
C28_Witness ==
    /\ op.name \in {"delete_layer", "delete_group"} /\ op.ok
    /\ Len(children[root_id]) = 2
    /\ children[root_id][1] < op.arg /\ op.arg < children[root_id][2]


\* C29: reorder_layers_by_z_index() only permutes siblings: every group holds
\* the same children as before, as often as before; no node changes its kind or
\* its parent_id; the layers reachable from the root and active_layer_id are
\* what they were; and a second call that follows with no z_index changed in
\* between leaves every children list as the first call left it.
C29_ReorderPermutesSiblings ==
    /\ [][op'.name = "reorder_layers_by_z_index" =>
            /\ \A g \in NodeIds : Permutation(children'[g], children[g])
            /\ UNCHANGED <<kind, parent_id, active_layer_id>>
            /\ ReachableLayers(kind', children') = ReachableLayers(kind, children)]_vars
    /\ [][op.name = "reorder_layers_by_z_index"
            /\ op'.name = "reorder_layers_by_z_index" => children' = children]_vars

\* C29 witness: a reorder brought three children of the root, two of them of
\* equal z_index, out of their order of creation while a layer was active.
C29_Witness ==
    /\ op.name = "reorder_layers_by_z_index"
    /\ active_layer_id # None
    /\ Len(children[root_id]) = 3
    /\ children[root_id][1] > children[root_id][3]
    /\ \E i, j \in 1..3 : i < j /\ z_index[children[root_id][i]] = z_index[children[root_id][j]]


\* C30: a successful g.move_child(c, new_index) only reorders g: g's children
\* are a permutation of what they were, of the same length; the children other
\* than the moved one keep their relative order; no parent_id changes, and the
\* moved child's parent_id is g's id; no other group's children change.
C30_MoveChildReordersOnly ==
    [][op'.name = "move_child" /\ op'.ok =>
        LET g == op'.on
            c == op'.arg
        IN /\ Len(children'[g]) = Len(children[g])
           /\ Permutation(children'[g], children[g])
           /\ Removing(children'[g], {c}) = Removing(children[g], {c})
           /\ parent_id' = parent_id
           /\ parent_id'[c] = g
           /\ \A h \in NodeIds \ {g} : children'[h] = children[h]]_vars


====
